---- MODULE Spec2Model ----
(***************************************************************************)
(* The exchange front-end as a state machine: the store's tables           *)
(* (user_balances, transactions, orders) with the row-level-security       *)
(* policies of the migration, and the handlers of the Assets, Admin and    *)
(* Trade pages that read and write them.  Every handler is split at its    *)
(* awaits: the steps of one call interleave with the steps of the others.  *)
(***************************************************************************)
EXTENDS Integers, Sequences, FiniteSets, TLC

(* ------------------------------ bounds --------------------------------- *)
\* rows the transactions table may hold
MaxTx == 2
\* approveTransaction calls that may be started (each reads the clock once)
MaxNow == 2
\* largest value a direct write stores in a balance column
MaxBalance == 1
\* rows the orders table may hold
MaxOrders == 1
\* answers to one page's fetches that may be under way at once
MaxAnswers == 2
\* direct writes to user_balances
MaxWrites == 1
\* largest absolute value of a stored MOON price, in units of 0.001 USD
MaxPrice == 2

\* transactions a user has when the Assets page mounts
MaxRows == 11

(* ------------------------------ constants ------------------------------ *)
Null == "null"
\* auth.users: one end user, two users holding the admin role
EndUser == "u1"
Admins == {"a1", "a2"}
Users == {EndUser} \cup Admins
\* the coins of the seed data whose balances and orders the model follows
Coins == {"BTC", "USDT"}
\* the rows of table coins the model follows: those, and the custom MOON coin
CoinSymbols == Coins \cup {"MOON"}
\* the seed prices, in units of 0.001 USD
SeedPrice(k) == CASE k = "BTC" -> 43000000 [] k = "USDT" -> 1000 [] k = "MOON" -> 1
\* the browser sessions that have the Admin page open, and who is signed in: the
\* /admin route asks for a signed-in user only, so the end user may open it too
AdminSessions == {"s1", "s2", "s3"}
sessionUser ==
  [s \in AdminSessions |-> IF s = "s1" THEN "a1" ELSE IF s = "s2" THEN "a2" ELSE EndUser]
\* handler calls the Assets page may have in flight at once
AssetCalls == {1, 2}
\* what a user may type into an amount field (type="number": "" or a number)
AmountInputs == {"", "1", "2"}
AddressInputs == {"", "addr"}
\* what may be typed into the MOON price field (no min attribute); prices are
\* counted in units of 0.001 USD, in this field too
PriceInputs == {"", "-1", "1", "2"}
\* what may be typed into the percentage field
PercentInputs == {"", "-200", "-100", "0", "100"}
\* what a user may type into the amount and price fields of the order form: the
\* inputs have no min attribute, so zero and negative numbers too
OrderInputs == AmountInputs \cup {"0", "-1"}
BalanceValues == (-1)..MaxBalance

VARIABLES
  adminWritePolicy,  \* whether the deployed store grants the admin role writes
  coins,             \* table coins: [CoinSymbols -> [price, is_active]]
  user_balances,     \* table user_balances: [Coins -> [balance, locked_balance]] of EndUser
  transactions,      \* table transactions: sequence of rows, the index is the id
  orders,            \* table orders: sequence of rows
  now,               \* the clock new Date() reads
  writes,            \* direct writes made so far
  fitted,            \* history: for each transactions row, the fits of its request
  depositAmount, withdrawAmount, withdrawAddress,   \* Assets form state
  assetCall,         \* Assets: the handler calls in flight
  assetToast,        \* Assets: the toast shown last
  assetsTransactions,\* Assets: the transactions state (statuses by id)
  assetsLoading,     \* Assets: loading
  assetsFetch,       \* Assets: fetchTransactions requests / responses in flight
  pendingList,       \* Admin: the transactions state of each session (ids)
  adminCall,         \* Admin: the approveTransaction call in flight of each session
  adminToast,        \* Admin: the last toast of each session
  adminFetch,        \* Admin: fetchTransactions requests / responses in flight
  moonPrice, priceChange,  \* Admin: the price form state of each session
  priceCall,         \* Admin: the price update call in flight of each session
  moonFetch,         \* Admin: fetchMoonPrice request / response in flight
  tradeCoins, tradeCoinsFetch,                      \* Trade: coins state, its fetch
  orderType, amount, price, loading,                \* Trade form state
  tradeCall, tradeToast,                            \* Trade: the call in flight
  balancesFetch,     \* Assets: whether fetchBalances is still awaiting the store
  adminLoading,      \* Admin: loading, of each session
  usersFetch         \* Admin: whether fetchUsers of each session is still awaiting

storeVars == <<adminWritePolicy, coins, user_balances, transactions, orders, now, writes, fitted>>
assetsVars == <<depositAmount, withdrawAmount, withdrawAddress, assetCall, assetToast,
                assetsTransactions, assetsLoading, assetsFetch>>
priceVars == <<moonPrice, priceChange, priceCall, moonFetch>>
adminVars == <<pendingList, adminCall, adminToast, adminFetch, priceVars>>
tradeVars == <<tradeCoins, tradeCoinsFetch, orderType, amount, price, loading,
               tradeCall, tradeToast>>
mountVars == <<balancesFetch, adminLoading, usersFetch>>
vars == <<storeVars, assetsVars, adminVars, tradeVars, mountVars>>

(* ------------------------------ helpers -------------------------------- *)
\* parseFloat on the strings a number input can hold
ParseFloat(s) ==
  CASE s = "1" -> 1
    [] s = "2" -> 2
    [] s = "0" -> 0
    [] s = "-1" -> -1
    [] s = "-2" -> -2
    [] s = "100" -> 100
    [] s = "-100" -> -100
    [] s = "-200" -> -200

\* Number.prototype.toString on the prices the model reaches
NumberToString(n) ==
  CASE n = 0 -> "0"
    [] n = 1 -> "1"
    [] n = 2 -> "2"
    [] n = -1 -> "-1"
    [] n = -2 -> "-2"

\* !value of a string state: true only of the empty string
IsEmpty(s) == s = ""

TxIds == 1..Len(transactions)

(* ----------------- the store: row-level security ---------------------- *)
\* POLICY "Users can update their own balances" / "... insert ..."
BalancesWritePolicy(uid, owner) == uid = owner
\* POLICY "Users can view their own transactions"
TransactionsSelectPolicy(uid, row) == uid = row.user_id
\* POLICY "Users can insert their own transactions"
TransactionsInsertPolicy(uid, row) == uid = row.user_id
\* the migration creates no UPDATE policy on transactions
TransactionsUpdatePolicy(uid, row) == FALSE
\* POLICY "Users can insert their own orders"
OrdersInsertPolicy(uid, row) == uid = row.user_id
\* POLICY "Users can update their own orders"
OrdersUpdatePolicy(uid, row) == uid = row.user_id
\* A grant to the admin role.  The migration under src/ holds none (its comment
\* on coins says "writable by admins only"); the other migrations of the
\* repository are not at hand, so both deployments are followed.
AdminGrant(uid) == adminWritePolicy /\ uid \in Admins
\* the migration creates no UPDATE policy on coins ("writable by admins only")
CoinsUpdatePolicy(uid) == FALSE
\* permissive policies are OR-ed
CanUpdateCoins(uid) == CoinsUpdatePolicy(uid) \/ AdminGrant(uid)
CanSelectTransaction(uid, row) == TransactionsSelectPolicy(uid, row) \/ AdminGrant(uid)
CanUpdateTransaction(uid, row) == TransactionsUpdatePolicy(uid, row) \/ AdminGrant(uid)

(* ----------------- the store: queries --------------------------------- *)
\* Admin.fetchTransactions: the ids of the pending rows the session may see
PendingSnapshot(uid) ==
  {i \in TxIds : transactions[i].status = "pending"
                  /\ CanSelectTransaction(uid, transactions[i])}

\* .limit(10) of Assets.fetchTransactions
FetchLimit == 10
\* Assets.fetchTransactions: the user's most recent rows, with their status
AssetsSnapshot(uid) ==
  LET mine == {i \in TxIds : transactions[i].user_id = uid
                               /\ CanSelectTransaction(uid, transactions[i])}
      recent == {i \in mine : Cardinality({j \in mine : j > i}) < FetchLimit}
  IN {[id |-> i, status |-> transactions[i].status] : i \in recent}

\* a fetch in flight: requests the store has not answered, answers not yet delivered
NoFetch == [req |-> 0, resp |-> {}]
Request(ch) == [ch EXCEPT !.req = @ + 1]
Answer(ch, snapshot) == [req |-> ch.req - 1, resp |-> ch.resp \cup {snapshot}]
Fail(ch) == [ch EXCEPT !.req = @ - 1]
Deliver(ch, snapshot) == [ch EXCEPT !.resp = @ \ {snapshot}]
\* answers the store has sent and the page has not yet received
CanAnswer(ch) == ch.req > 0 /\ Cardinality(ch.resp) < MaxAnswers

(* ----------------- Assets page ---------------------------------------- *)
\* const walletAddresses = {BTC: ..., ETH: ..., 'USDT (ERC20)': ..., 'USDT (TRC20)': ...}
walletAddresses(coinSymbol) ==
  CASE coinSymbol = "BTC" -> "1LyZHu2xzqYyzLesS7UYecXUTW6AGngBFR"
    [] coinSymbol = "ETH" -> "0x1016a1ff1907e77afa6f4889f8796b4c3237252d"
    [] OTHER -> Null

\* fits is a history field no action reads: whether the amount of a withdrawal
\* request was available when the request was made
IdleCall ==
  [pc |-> "idle", op |-> "none", coin |-> Null, amount |-> "", address |-> "", fits |-> FALSE]

\* rows already stored plus the inserts the calls in flight may still make
TxInFlight == Cardinality({c \in AssetCalls : assetCall[c].pc # "idle"})

\* the row handleDeposit inserts
DepositRow(call) ==
  [user_id |-> EndUser, coin_id |-> call.coin, type |-> "deposit",
   amount |-> ParseFloat(call.amount), status |-> "pending",
   wallet_address |-> walletAddresses(call.coin),
   admin_approved_by |-> Null, admin_approved_at |-> 0]

\* the row handleWithdraw inserts
WithdrawRow(call) ==
  [user_id |-> EndUser, coin_id |-> call.coin, type |-> "withdrawal",
   amount |-> ParseFloat(call.amount), status |-> "pending",
   wallet_address |-> call.address,
   admin_approved_by |-> Null, admin_approved_at |-> 0]

\* The user fills the deposit form and clicks a deposit button: onChange sets
\* depositAmount, then handleDeposit runs up to its first await (the validation,
\* then the coin lookup is sent).  The call keeps the amount of its render.
HandleDeposit(c, coinSymbol, typed) ==
  /\ assetCall[c].pc = "idle"
  /\ depositAmount' = typed
  /\ IF IsEmpty(typed)
     THEN /\ assetToast' = "validation"
          /\ UNCHANGED assetCall
     ELSE /\ Len(transactions) + TxInFlight < MaxTx
          /\ assetCall' = [assetCall EXCEPT ![c] =
                 [pc |-> "select", op |-> "deposit", coin |-> coinSymbol,
                  amount |-> typed, address |-> "", fits |-> FALSE]]
          /\ UNCHANGED assetToast
  /\ UNCHANGED <<storeVars, withdrawAmount, withdrawAddress,
                 assetsTransactions, assetsLoading, assetsFetch, adminVars, tradeVars>>
  /\ UNCHANGED mountVars

\* a handleWithdraw that clears the address field when it rejects the input
HandleWithdrawClears(c, coinSymbol, typed, typedAddress) ==
  /\ assetCall[c].pc = "idle"
  /\ withdrawAmount' = typed
  /\ IF IsEmpty(typed) \/ IsEmpty(typedAddress)
     THEN /\ assetToast' = "validation"
          /\ withdrawAddress' = ""
          /\ UNCHANGED assetCall
     ELSE /\ Len(transactions) + TxInFlight < MaxTx
          /\ withdrawAddress' = typedAddress
          /\ assetCall' = [assetCall EXCEPT ![c] =
                 [pc |-> "select", op |-> "withdrawal", coin |-> coinSymbol,
                  amount |-> typed, address |-> typedAddress,
                  fits |-> ParseFloat(typed) <= user_balances[coinSymbol].balance]]
          /\ UNCHANGED assetToast
  /\ UNCHANGED <<storeVars, depositAmount,
                 assetsTransactions, assetsLoading, assetsFetch, adminVars, tradeVars>>
  /\ UNCHANGED mountVars

\* The user fills the withdrawal form and clicks a withdraw button: handleWithdraw
\* up to its first await
HandleWithdraw(c, coinSymbol, typed, typedAddress) ==
  /\ assetCall[c].pc = "idle"
  /\ withdrawAmount' = typed
  /\ withdrawAddress' = typedAddress
  /\ IF IsEmpty(typed) \/ IsEmpty(typedAddress)
     THEN /\ assetToast' = "validation"
          /\ UNCHANGED assetCall
     ELSE /\ Len(transactions) + TxInFlight < MaxTx
          /\ assetCall' = [assetCall EXCEPT ![c] =
                 [pc |-> "select", op |-> "withdrawal", coin |-> coinSymbol,
                  amount |-> typed, address |-> typedAddress,
                  fits |-> ParseFloat(typed) <= user_balances[coinSymbol].balance]]
          /\ UNCHANGED assetToast
  /\ UNCHANGED <<storeVars, depositAmount,
                 assetsTransactions, assetsLoading, assetsFetch, adminVars, tradeVars>>
  /\ UNCHANGED mountVars

\* the coin lookup returns: coinData, or nothing when the store failed
CoinSelect(c) ==
  /\ assetCall[c].pc = "select"
  /\ \E found \in BOOLEAN :
       IF found
       THEN /\ assetCall' = [assetCall EXCEPT ![c].pc = "insert"]
            /\ UNCHANGED assetToast
       ELSE /\ assetCall' = [assetCall EXCEPT ![c] = IdleCall]
            /\ assetToast' = "error"
  /\ UNCHANGED <<storeVars, depositAmount, withdrawAmount, withdrawAddress,
                 assetsTransactions, assetsLoading, assetsFetch, adminVars, tradeVars>>
  /\ UNCHANGED mountVars

\* a handleDeposit that credits the amount as soon as the request is stored
DepositInsertCredits(c) ==
  /\ assetCall[c].pc = "insert"
  /\ assetCall[c].op = "deposit"
  /\ \E stored \in BOOLEAN :
       IF stored /\ TransactionsInsertPolicy(EndUser, DepositRow(assetCall[c]))
       THEN /\ transactions' = Append(transactions, DepositRow(assetCall[c]))
            /\ fitted' = Append(fitted, assetCall[c].fits)
            /\ user_balances' = [user_balances EXCEPT ![assetCall[c].coin].balance =
                                    @ + ParseFloat(assetCall[c].amount)]
            /\ assetToast' = "success"
            /\ depositAmount' = ""
            /\ assetsFetch' = Request(assetsFetch)
       ELSE /\ assetToast' = "error"
            /\ UNCHANGED <<transactions, fitted, user_balances, depositAmount, assetsFetch>>
  /\ assetCall' = [assetCall EXCEPT ![c] = IdleCall]
  /\ UNCHANGED <<adminWritePolicy, coins, orders, now, writes, withdrawAmount,
                 withdrawAddress, assetsTransactions, assetsLoading, adminVars, tradeVars>>
  /\ UNCHANGED mountVars

\* handleDeposit from the insert on: the row is stored, the form reset, the list refetched
DepositInsert(c) ==
  /\ assetCall[c].pc = "insert"
  /\ assetCall[c].op = "deposit"
  /\ \E stored \in BOOLEAN :
       IF stored /\ TransactionsInsertPolicy(EndUser, DepositRow(assetCall[c]))
       THEN /\ transactions' = Append(transactions, DepositRow(assetCall[c]))
            /\ fitted' = Append(fitted, assetCall[c].fits)
            /\ assetToast' = "success"
            /\ depositAmount' = ""
            /\ assetsFetch' = Request(assetsFetch)
       ELSE /\ assetToast' = "error"
            /\ UNCHANGED <<transactions, fitted, depositAmount, assetsFetch>>
  /\ assetCall' = [assetCall EXCEPT ![c] = IdleCall]
  /\ UNCHANGED <<adminWritePolicy, coins, user_balances, orders, now, writes, withdrawAmount,
                 withdrawAddress, assetsTransactions, assetsLoading, adminVars, tradeVars>>
  /\ UNCHANGED mountVars

\* handleWithdraw from the insert on
WithdrawInsert(c) ==
  /\ assetCall[c].pc = "insert"
  /\ assetCall[c].op = "withdrawal"
  /\ \E stored \in BOOLEAN :
       IF stored /\ TransactionsInsertPolicy(EndUser, WithdrawRow(assetCall[c]))
       THEN /\ transactions' = Append(transactions, WithdrawRow(assetCall[c]))
            /\ fitted' = Append(fitted, assetCall[c].fits)
            /\ assetToast' = "success"
            /\ withdrawAmount' = ""
            /\ withdrawAddress' = ""
            /\ assetsFetch' = Request(assetsFetch)
       ELSE /\ assetToast' = "error"
            /\ UNCHANGED <<transactions, fitted, withdrawAmount, withdrawAddress, assetsFetch>>
  /\ assetCall' = [assetCall EXCEPT ![c] = IdleCall]
  /\ UNCHANGED <<adminWritePolicy, coins, user_balances, orders, now, writes, depositAmount,
                 assetsTransactions, assetsLoading, adminVars, tradeVars>>
  /\ UNCHANGED mountVars

\* Assets.fetchTransactions: the store answers a request
AssetsFetchAnswer ==
  /\ CanAnswer(assetsFetch)
  /\ assetsFetch' = Answer(assetsFetch, AssetsSnapshot(EndUser))
  /\ UNCHANGED <<storeVars, depositAmount, withdrawAmount, withdrawAddress, assetCall,
                 assetToast, assetsTransactions, assetsLoading, adminVars, tradeVars>>
  /\ UNCHANGED mountVars

\* Assets.fetchTransactions: the request fails; the catch logs, finally setLoading(false)
AssetsFetchFail ==
  /\ assetsFetch.req > 0
  /\ assetsFetch' = Fail(assetsFetch)
  /\ assetsLoading' = FALSE
  /\ UNCHANGED <<storeVars, depositAmount, withdrawAmount, withdrawAddress, assetCall,
                 assetToast, assetsTransactions, adminVars, tradeVars>>
  /\ UNCHANGED mountVars

\* Assets.fetchTransactions: an answer arrives; setTransactions, finally setLoading(false)
AssetsFetchDeliver ==
  /\ \E r \in assetsFetch.resp :
       /\ assetsFetch' = Deliver(assetsFetch, r)
       /\ assetsTransactions' = r
  /\ assetsLoading' = FALSE
  /\ UNCHANGED <<storeVars, depositAmount, withdrawAmount, withdrawAddress, assetCall,
                 assetToast, adminVars, tradeVars>>
  /\ UNCHANGED mountVars

\* Assets.fetchBalances settles: setBalances(data || []), or the catch logs; it
\* does not touch loading
FetchBalancesSettle ==
  /\ balancesFetch = "pending"
  /\ balancesFetch' = "done"
  /\ UNCHANGED <<storeVars, assetsVars, adminVars, tradeVars, adminLoading, usersFetch>>

(* ----------------- Admin page ----------------------------------------- *)
\* Admin.fetchUsers settles: setUsers(data || []), or the catch logs; finally
\* setLoading(false)
FetchUsersSettle(s) ==
  /\ usersFetch[s] = "pending"
  /\ usersFetch' = [usersFetch EXCEPT ![s] = "done"]
  /\ adminLoading' = [adminLoading EXCEPT ![s] = FALSE]
  /\ UNCHANGED <<storeVars, assetsVars, adminVars, tradeVars, balancesFetch>>

IdleApprove == [pc |-> "idle", id |-> 0, approve |-> FALSE, at |-> 0]

\* Admin.fetchTransactions: the store answers a request of session s
AdminFetchAnswer(s) ==
  /\ CanAnswer(adminFetch[s])
  /\ adminFetch' = [adminFetch EXCEPT ![s] = Answer(@, PendingSnapshot(sessionUser[s]))]
  /\ UNCHANGED <<storeVars, assetsVars, pendingList, adminCall, adminToast, priceVars, tradeVars>>
  /\ UNCHANGED mountVars

\* Admin.fetchTransactions: the request fails; the catch logs and the list stays
AdminFetchFail(s) ==
  /\ adminFetch[s].req > 0
  /\ adminFetch' = [adminFetch EXCEPT ![s] = Fail(@)]
  /\ UNCHANGED <<storeVars, assetsVars, pendingList, adminCall, adminToast, priceVars, tradeVars>>
  /\ UNCHANGED mountVars

\* Admin.fetchTransactions: an answer arrives; setTransactions(data)
AdminFetchDeliver(s) ==
  /\ \E r \in adminFetch[s].resp :
       /\ adminFetch' = [adminFetch EXCEPT ![s] = Deliver(@, r)]
       /\ pendingList' = [pendingList EXCEPT ![s] = r]
  /\ UNCHANGED <<storeVars, assetsVars, adminCall, adminToast, priceVars, tradeVars>>
  /\ UNCHANGED mountVars

\* the update approveTransaction sends: .update({status, admin_approved_by,
\* admin_approved_at}).eq('id', transactionId), on the rows the policies let uid update
ApproveRows(uid, call) ==
  [i \in TxIds |->
     IF i = call.id /\ CanUpdateTransaction(uid, transactions[i])
     THEN [transactions[i] EXCEPT
             !.status = IF call.approve THEN "completed" ELSE "rejected",
             !.admin_approved_by = uid,
             !.admin_approved_at = call.at]
     ELSE transactions[i]]

\* approveTransaction up to its await: a button of a listed row is clicked, the
\* payload (with new Date()) is built and the update sent
ApproveTransaction(s, transactionId, approve) ==
  /\ adminCall[s].pc = "idle"
  /\ transactionId \in pendingList[s]
  /\ now < MaxNow
  /\ now' = now + 1
  /\ adminCall' = [adminCall EXCEPT ![s] =
        [pc |-> "update", id |-> transactionId, approve |-> approve, at |-> now + 1]]
  /\ UNCHANGED <<adminWritePolicy, coins, user_balances, transactions, orders, writes, fitted,
                 assetsVars,
                 pendingList, adminToast, adminFetch, priceVars, tradeVars>>
  /\ UNCHANGED mountVars

\* approveTransaction from the update on: the store applies it, the toast is shown
\* and the pending list refetched
ApproveUpdate(s) ==
  /\ adminCall[s].pc = "update"
  /\ \E ok \in BOOLEAN :
       IF ok
       THEN /\ transactions' = ApproveRows(sessionUser[s], adminCall[s])
            /\ adminToast' = [adminToast EXCEPT ![s] = "success"]
            /\ adminFetch' = [adminFetch EXCEPT ![s] = Request(@)]
       ELSE /\ adminToast' = [adminToast EXCEPT ![s] = "error"]
            /\ UNCHANGED <<transactions, adminFetch>>
  /\ adminCall' = [adminCall EXCEPT ![s] = IdleApprove]
  /\ UNCHANGED <<adminWritePolicy, coins, user_balances, orders, now, writes, fitted, assetsVars,
                 pendingList, priceVars, tradeVars>>
  /\ UNCHANGED mountVars

(* ----------------- Admin page: the MOON price -------------------------- *)
IdlePrice == [pc |-> "idle", price |-> 0, pct |-> ""]
\* the frame of the price handlers
PriceFrame == <<storeVars, assetsVars, pendingList, adminCall, adminFetch, tradeVars>>

\* Admin.fetchMoonPrice: the store answers with the price of MOON
MoonFetchAnswer(s) ==
  /\ CanAnswer(moonFetch[s])
  /\ moonFetch' = [moonFetch EXCEPT ![s] = Answer(@, coins["MOON"].price)]
  /\ UNCHANGED <<PriceFrame, adminToast, moonPrice, priceChange, priceCall>>
  /\ UNCHANGED mountVars

\* Admin.fetchMoonPrice: the request fails; the catch logs
MoonFetchFail(s) ==
  /\ moonFetch[s].req > 0
  /\ moonFetch' = [moonFetch EXCEPT ![s] = Fail(@)]
  /\ UNCHANGED <<PriceFrame, adminToast, moonPrice, priceChange, priceCall>>
  /\ UNCHANGED mountVars

\* Admin.fetchMoonPrice: the answer arrives; setMoonPrice(data.price.toString())
MoonFetchDeliver(s) ==
  /\ \E r \in moonFetch[s].resp :
       /\ moonFetch' = [moonFetch EXCEPT ![s] = Deliver(@, r)]
       /\ moonPrice' = [moonPrice EXCEPT ![s] = NumberToString(r)]
  /\ UNCHANGED <<PriceFrame, adminToast, priceChange, priceCall>>
  /\ UNCHANGED mountVars

\* The price field is filled and Update Price clicked: updateMoonPrice up to its
\* await (the validation, then the update is sent)
UpdateMoonPrice(s, typed) ==
  /\ priceCall[s].pc = "idle"
  /\ moonPrice' = [moonPrice EXCEPT ![s] = typed]
  /\ IF IsEmpty(typed)
     THEN /\ adminToast' = [adminToast EXCEPT ![s] = "validation"]
          /\ UNCHANGED priceCall
     ELSE /\ priceCall' = [priceCall EXCEPT ![s] =
                 [pc |-> "update", price |-> ParseFloat(typed), pct |-> ""]]
          /\ UNCHANGED adminToast
  /\ UNCHANGED <<PriceFrame, priceChange, moonFetch>>
  /\ UNCHANGED mountVars

\* the row of MOON after .update({price}).eq('symbol', 'MOON') sent by uid
PriceRows(uid, newPrice) ==
  IF CanUpdateCoins(uid) THEN [coins EXCEPT !["MOON"].price = newPrice] ELSE coins

\* updateMoonPrice from the update on
UpdateMoonPriceAnswer(s) ==
  /\ priceCall[s].pc = "update"
  /\ \E ok \in BOOLEAN :
       IF ok
       THEN /\ coins' = PriceRows(sessionUser[s], priceCall[s].price)
            /\ adminToast' = [adminToast EXCEPT ![s] = "success"]
       ELSE /\ adminToast' = [adminToast EXCEPT ![s] = "error"]
            /\ UNCHANGED coins
  /\ priceCall' = [priceCall EXCEPT ![s] = IdlePrice]
  /\ UNCHANGED <<adminWritePolicy, user_balances, transactions, orders, now, writes, fitted,
                 assetsVars, pendingList, adminCall, adminFetch, tradeVars,
                 moonPrice, priceChange, moonFetch>>
  /\ UNCHANGED mountVars

\* The percentage field is filled and Apply Percentage Change clicked:
\* updateMoonPriceByPercentage up to its first await (the validation, then the
\* current price is asked for)
UpdateMoonPriceByPercentage(s, typed) ==
  /\ priceCall[s].pc = "idle"
  /\ priceChange' = [priceChange EXCEPT ![s] = typed]
  /\ IF IsEmpty(typed)
     THEN /\ adminToast' = [adminToast EXCEPT ![s] = "validation"]
          /\ UNCHANGED priceCall
     ELSE /\ priceCall' = [priceCall EXCEPT ![s] = [pc |-> "select", price |-> 0, pct |-> typed]]
          /\ UNCHANGED adminToast
  /\ UNCHANGED <<PriceFrame, moonPrice, moonFetch>>
  /\ UNCHANGED mountVars

\* changePercent = parseFloat(priceChange) / 100; newPrice = price * (1 + changePercent)
\* (the percentages of PercentInputs are multiples of 100: the quotient is exact)
NewPrice(currentPrice, typed) == currentPrice * (1 + ParseFloat(typed) \div 100)

\* updateMoonPriceByPercentage: the current price arrives, newPrice is computed
\* and the update sent; or nothing arrives
PercentageSelect(s) ==
  /\ priceCall[s].pc = "select"
  /\ \E found \in BOOLEAN :
       IF found
       THEN /\ NewPrice(coins["MOON"].price, priceCall[s].pct) \in (-MaxPrice)..MaxPrice
            /\ priceCall' = [priceCall EXCEPT ![s] =
                  [pc |-> "write", price |-> NewPrice(coins["MOON"].price, @.pct),
                   pct |-> @.pct]]
            /\ UNCHANGED adminToast
       ELSE /\ priceCall' = [priceCall EXCEPT ![s] = IdlePrice]
            /\ adminToast' = [adminToast EXCEPT ![s] = "error"]
  /\ UNCHANGED <<PriceFrame, moonPrice, priceChange, moonFetch>>
  /\ UNCHANGED mountVars

\* updateMoonPriceByPercentage from the update on
PercentageUpdate(s) ==
  /\ priceCall[s].pc = "write"
  /\ \E ok \in BOOLEAN :
       IF ok
       THEN /\ coins' = PriceRows(sessionUser[s], priceCall[s].price)
            /\ moonPrice' = [moonPrice EXCEPT ![s] = NumberToString(priceCall[s].price)]
            /\ priceChange' = [priceChange EXCEPT ![s] = ""]
            /\ adminToast' = [adminToast EXCEPT ![s] = "success"]
       ELSE /\ adminToast' = [adminToast EXCEPT ![s] = "error"]
            /\ UNCHANGED <<coins, moonPrice, priceChange>>
  /\ priceCall' = [priceCall EXCEPT ![s] = IdlePrice]
  /\ UNCHANGED <<adminWritePolicy, user_balances, transactions, orders, now, writes, fitted,
                 assetsVars, pendingList, adminCall, adminFetch, tradeVars, moonFetch>>
  /\ UNCHANGED mountVars

(* ----------------- writes the policies permit -------------------------- *)
\* a client signed in as uid writes a column of EndUser's balance row directly
\* (supabase client, no handler): the UPDATE / INSERT policies decide
UserWriteBalance(uid, coin, column, v) ==
  /\ writes < MaxWrites
  /\ writes' = writes + 1
  /\ user_balances' =
       IF BalancesWritePolicy(uid, EndUser)
       THEN [user_balances EXCEPT ![coin] =
               IF column = "balance" THEN [@ EXCEPT !.balance = v]
                                     ELSE [@ EXCEPT !.locked_balance = v]]
       ELSE user_balances
  /\ UNCHANGED <<adminWritePolicy, coins, transactions, orders, now, fitted, assetsVars, adminVars,
                 tradeVars>>
  /\ UNCHANGED mountVars

\* CHECK (status IN ('pending', 'completed', 'cancelled', 'rejected')) of table transactions
TransactionStatuses == {"pending", "completed", "cancelled", "rejected"}

\* the row a client inserts into transactions directly: a deposit of 1 BTC
\* booked on owner, with the status the client chooses
DirectRow(owner, status) ==
  [user_id |-> owner, coin_id |-> "BTC", type |-> "deposit", amount |-> 1,
   status |-> status, wallet_address |-> Null,
   admin_approved_by |-> Null, admin_approved_at |-> 0]

\* A client signed in as uid inserts a transactions row through the store's API
\* (no handler): the INSERT policy decides
UserInsertTransaction(uid, owner, status) ==
  /\ writes < MaxWrites
  /\ Len(transactions) + TxInFlight < MaxTx
  /\ writes' = writes + 1
  /\ IF TransactionsInsertPolicy(uid, DirectRow(owner, status))
     THEN /\ transactions' = Append(transactions, DirectRow(owner, status))
          /\ fitted' = Append(fitted, FALSE)
     ELSE UNCHANGED <<transactions, fitted>>
  /\ UNCHANGED <<adminWritePolicy, coins, user_balances, orders, now,
                 assetsVars, adminVars, tradeVars>>
  /\ UNCHANGED mountVars

\* CHECK (status IN ('open', 'filled', 'cancelled', 'partial')) of table orders
OrderStatuses == {"open", "filled", "cancelled", "partial"}
\* the values a direct write stores in orders.filled_amount
FilledValues == 0..(MaxBalance + 1)

\* A signed-in client updates a column of an order through the store's API: the
\* update applies to the rows the UPDATE policy lets it see
UserWriteOrder(uid, i, column, v) ==
  /\ writes < MaxWrites
  /\ i \in 1..Len(orders)
  /\ writes' = writes + 1
  /\ orders' =
       IF OrdersUpdatePolicy(uid, orders[i])
       THEN [orders EXCEPT ![i] =
               IF column = "status" THEN [@ EXCEPT !.status = v]
                                    ELSE [@ EXCEPT !.filled_amount = v]]
       ELSE orders
  /\ UNCHANGED <<adminWritePolicy, coins, user_balances, transactions, now, fitted,
                 assetsVars, adminVars, tradeVars>>
  /\ UNCHANGED mountVars

\* The store's operator deactivates a coin (coins.is_active, default true, is a
\* column no page of the application writes)
DeactivateCoin(k) ==
  /\ coins[k].is_active
  /\ coins' = [coins EXCEPT ![k].is_active = FALSE]
  /\ UNCHANGED <<adminWritePolicy, user_balances, transactions, orders, now, writes, fitted,
                 assetsVars, adminVars, tradeVars>>
  /\ UNCHANGED mountVars

(* ----------------- Trade page ------------------------------------------ *)
\* const tradingPairs, those whose coins the model follows
tradingPairs == {<<"BTC", "USDT">>}
IdleTrade == [pc |-> "idle", row |-> <<>>]

\* .eq('is_active', true) of Trade.fetchCoins
ActiveCoins == {k \in Coins : coins[k].is_active}

\* Trade.fetchCoins: the store answers with the active coins
TradeFetchAnswer ==
  /\ CanAnswer(tradeCoinsFetch)
  /\ tradeCoinsFetch' = Answer(tradeCoinsFetch, ActiveCoins)
  /\ UNCHANGED <<storeVars, assetsVars, adminVars, tradeCoins, orderType, amount, price,
                 loading, tradeCall, tradeToast>>
  /\ UNCHANGED mountVars

\* Trade.fetchCoins: the request fails; the catch logs and coins stays empty
TradeFetchFail ==
  /\ tradeCoinsFetch.req > 0
  /\ tradeCoinsFetch' = Fail(tradeCoinsFetch)
  /\ UNCHANGED <<storeVars, assetsVars, adminVars, tradeCoins, orderType, amount, price,
                 loading, tradeCall, tradeToast>>
  /\ UNCHANGED mountVars

\* Trade.fetchCoins: the answer arrives; setCoins(data)
TradeFetchDeliver ==
  /\ \E r \in tradeCoinsFetch.resp :
       /\ tradeCoinsFetch' = Deliver(tradeCoinsFetch, r)
       /\ tradeCoins' = r
  /\ UNCHANGED <<storeVars, assetsVars, adminVars, orderType, amount, price,
                 loading, tradeCall, tradeToast>>
  /\ UNCHANGED mountVars

\* a handleTrade that sends the price field whenever it is filled, whatever the order type
OrderRowKeepsPrice(pair, side, type, typedAmount, typedPrice) ==
  [user_id |-> EndUser, base_coin_id |-> pair[1], quote_coin_id |-> pair[2],
   type |-> type, side |-> side, amount |-> ParseFloat(typedAmount),
   price |-> IF IsEmpty(typedPrice) THEN <<>> ELSE <<ParseFloat(typedPrice)>>,
   filled_amount |-> 0, status |-> "open"]

\* a handleTrade that stores its order as filled at once
OrderRowFilled(pair, side, type, typedAmount, typedPrice) ==
  [user_id |-> EndUser, base_coin_id |-> pair[1], quote_coin_id |-> pair[2],
   type |-> type, side |-> side, amount |-> ParseFloat(typedAmount),
   price |-> IF type = "limit" THEN <<ParseFloat(typedPrice)>> ELSE <<>>,
   filled_amount |-> ParseFloat(typedAmount), status |-> "filled"]

\* the row handleTrade inserts; filled_amount and status take the column defaults
OrderRow(pair, side, type, typedAmount, typedPrice) ==
  [user_id |-> EndUser, base_coin_id |-> pair[1], quote_coin_id |-> pair[2],
   type |-> type, side |-> side, amount |-> ParseFloat(typedAmount),
   price |-> IF type = "limit" THEN <<ParseFloat(typedPrice)>> ELSE <<>>,
   filled_amount |-> 0, status |-> "open"]

\* a handleTrade without setLoading(true): the buttons stay enabled
HandleTradeStaysEnabled(pair, side, type, typedAmount, typedPrice) ==
  /\ ~loading
  /\ tradeCall.pc = "idle"
  /\ orderType' = type
  /\ amount' = typedAmount
  /\ price' = typedPrice
  /\ IF IsEmpty(typedAmount) \/ (type = "limit" /\ IsEmpty(typedPrice))
     THEN /\ tradeToast' = "validation"
          /\ UNCHANGED <<loading, tradeCall>>
     ELSE IF ~(pair[1] \in tradeCoins /\ pair[2] \in tradeCoins)
     THEN /\ tradeToast' = "error"
          /\ UNCHANGED <<loading, tradeCall>>
     ELSE /\ Len(orders) < MaxOrders
          /\ tradeCall' = [pc |-> "insert",
                           row |-> <<OrderRow(pair, side, type, typedAmount, typedPrice)>>]
          /\ UNCHANGED <<loading, tradeToast>>
  /\ UNCHANGED <<storeVars, assetsVars, adminVars, tradeCoins, tradeCoinsFetch>>
  /\ UNCHANGED mountVars

\* The user fills the order form (order type, amount, and the price typed while
\* the type was limit) and clicks Buy or Sell: handleTrade up to its await, that is
\* the validation, setLoading(true), the pair lookup in the coins state, and the
\* insert being sent
HandleTrade(pair, side, type, typedAmount, typedPrice) ==
  /\ ~loading
  /\ tradeCall.pc = "idle"
  /\ orderType' = type
  /\ amount' = typedAmount
  /\ price' = typedPrice
  /\ IF IsEmpty(typedAmount) \/ (type = "limit" /\ IsEmpty(typedPrice))
     THEN /\ tradeToast' = "validation"
          /\ UNCHANGED <<loading, tradeCall>>
     ELSE IF ~(pair[1] \in tradeCoins /\ pair[2] \in tradeCoins)
     THEN /\ tradeToast' = "error"
          /\ UNCHANGED <<loading, tradeCall>>
     ELSE /\ Len(orders) < MaxOrders
          /\ loading' = TRUE
          /\ tradeCall' = [pc |-> "insert",
                           row |-> <<OrderRow(pair, side, type, typedAmount, typedPrice)>>]
          /\ UNCHANGED tradeToast
  /\ UNCHANGED <<storeVars, assetsVars, adminVars, tradeCoins, tradeCoinsFetch>>
  /\ UNCHANGED mountVars

\* handleTrade from the insert on: the row is stored, the form reset, finally
\* setLoading(false)
TradeInsert ==
  /\ tradeCall.pc = "insert"
  /\ \E stored \in BOOLEAN :
       IF stored /\ OrdersInsertPolicy(EndUser, tradeCall.row[1])
       THEN /\ orders' = Append(orders, tradeCall.row[1])
            /\ tradeToast' = "success"
            /\ amount' = ""
            /\ price' = ""
       ELSE /\ tradeToast' = "error"
            /\ UNCHANGED <<orders, amount, price>>
  /\ loading' = FALSE
  /\ tradeCall' = IdleTrade
  /\ UNCHANGED <<adminWritePolicy, coins, user_balances, transactions, now, writes, fitted,
                 assetsVars,
                 adminVars, tradeCoins, tradeCoinsFetch, orderType>>
  /\ UNCHANGED mountVars

(* ----------------- typing, apart from the clicks ------------------------ *)
\* onChange of the form fields: setDepositAmount(e.target.value) and the like
SetDepositAmount(v) ==
  /\ depositAmount' = v
  /\ UNCHANGED <<storeVars, withdrawAmount, withdrawAddress, assetCall, assetToast,
                 assetsTransactions, assetsLoading, assetsFetch, adminVars, tradeVars>>
  /\ UNCHANGED mountVars

SetWithdrawAmount(v) ==
  /\ withdrawAmount' = v
  /\ UNCHANGED <<storeVars, depositAmount, withdrawAddress, assetCall, assetToast,
                 assetsTransactions, assetsLoading, assetsFetch, adminVars, tradeVars>>
  /\ UNCHANGED mountVars

SetWithdrawAddress(v) ==
  /\ withdrawAddress' = v
  /\ UNCHANGED <<storeVars, depositAmount, withdrawAmount, assetCall, assetToast,
                 assetsTransactions, assetsLoading, assetsFetch, adminVars, tradeVars>>
  /\ UNCHANGED mountVars

SetOrderType(t) ==
  /\ orderType' = t
  /\ UNCHANGED <<storeVars, assetsVars, adminVars, tradeCoins, tradeCoinsFetch, amount, price,
                 loading, tradeCall, tradeToast>>
  /\ UNCHANGED mountVars

SetAmount(v) ==
  /\ amount' = v
  /\ UNCHANGED <<storeVars, assetsVars, adminVars, tradeCoins, tradeCoinsFetch, orderType,
                 price, loading, tradeCall, tradeToast>>
  /\ UNCHANGED mountVars

SetPrice(v) ==
  /\ price' = v
  /\ UNCHANGED <<storeVars, assetsVars, adminVars, tradeCoins, tradeCoinsFetch, orderType,
                 amount, loading, tradeCall, tradeToast>>
  /\ UNCHANGED mountVars

SetMoonPrice(s, v) ==
  /\ moonPrice' = [moonPrice EXCEPT ![s] = v]
  /\ UNCHANGED <<PriceFrame, adminToast, priceChange, priceCall, moonFetch>>
  /\ UNCHANGED mountVars

SetPriceChange(s, v) ==
  /\ priceChange' = [priceChange EXCEPT ![s] = v]
  /\ UNCHANGED <<PriceFrame, adminToast, moonPrice, priceCall, moonFetch>>
  /\ UNCHANGED mountVars

(* ----------------- the state machine ----------------------------------- *)
\* the seeded store but for its transactions, and the pages as they mount
InitPages ==
  /\ adminWritePolicy \in BOOLEAN
  /\ coins = [k \in CoinSymbols |-> [price |-> SeedPrice(k), is_active |-> TRUE]]
  /\ user_balances = [k \in Coins |-> [balance |-> 0, locked_balance |-> 0]]
  /\ orders = <<>>
  /\ now = 0
  /\ writes = 0
  /\ depositAmount = ""
  /\ withdrawAmount = ""
  /\ withdrawAddress = ""
  /\ assetCall = [c \in AssetCalls |-> IdleCall]
  /\ assetToast = "none"
  /\ assetsTransactions = {}
  /\ assetsLoading = TRUE
  /\ assetsFetch = Request(NoFetch)
  /\ pendingList = [s \in AdminSessions |-> {}]
  /\ adminCall = [s \in AdminSessions |-> IdleApprove]
  /\ adminToast = [s \in AdminSessions |-> "none"]
  /\ adminFetch = [s \in AdminSessions |-> Request(NoFetch)]
  /\ moonPrice = [s \in AdminSessions |-> ""]
  /\ priceChange = [s \in AdminSessions |-> ""]
  /\ priceCall = [s \in AdminSessions |-> IdlePrice]
  /\ moonFetch = [s \in AdminSessions |-> Request(NoFetch)]
  /\ tradeCoins = {}
  /\ tradeCoinsFetch = Request(NoFetch)
  /\ orderType = "market"
  /\ amount = ""
  /\ price = ""
  /\ loading = FALSE
  /\ tradeCall = IdleTrade
  /\ tradeToast = "none"
  /\ balancesFetch = "pending"
  /\ adminLoading = [s \in AdminSessions |-> TRUE]
  /\ usersFetch = [s \in AdminSessions |-> "pending"]

Init ==
  /\ transactions = <<>>
  /\ fitted = <<>>
  /\ InitPages

\* the Assets page mounts for a user who has up to MaxRows transactions, pending
\* or completed, from earlier visits
InitHistory ==
  /\ transactions \in UNION {[1..n -> {DirectRow(EndUser, "pending"), DirectRow(EndUser, "completed")}] :
                               n \in 0..MaxRows}
  /\ fitted = [i \in 1..Len(transactions) |-> FALSE]
  /\ InitPages

\* the Assets page
AssetsNext ==
  \/ \E c \in AssetCalls, k \in Coins, v \in AmountInputs : HandleDeposit(c, k, v)
  \/ \E c \in AssetCalls, k \in Coins, v \in AmountInputs, a \in AddressInputs :
        HandleWithdraw(c, k, v, a)
  \/ \E c \in AssetCalls : CoinSelect(c)
  \/ \E c \in AssetCalls : DepositInsert(c)
  \/ \E c \in AssetCalls : WithdrawInsert(c)
  \/ AssetsFetchAnswer
  \/ AssetsFetchFail
  \/ AssetsFetchDeliver

\* the Admin page
AdminNext ==
  \/ \E s \in AdminSessions : AdminFetchAnswer(s)
  \/ \E s \in AdminSessions : AdminFetchFail(s)
  \/ \E s \in AdminSessions : AdminFetchDeliver(s)
  \/ \E s \in AdminSessions, i \in 1..MaxTx, a \in BOOLEAN : ApproveTransaction(s, i, a)
  \/ \E s \in AdminSessions : ApproveUpdate(s)

\* the price form of the Admin page in session s
PriceNext(s) ==
  \/ MoonFetchAnswer(s)
  \/ MoonFetchFail(s)
  \/ MoonFetchDeliver(s)
  \/ \E v \in PriceInputs : UpdateMoonPrice(s, v)
  \/ UpdateMoonPriceAnswer(s)
  \/ \E v \in PercentInputs : UpdateMoonPriceByPercentage(s, v)
  \/ PercentageSelect(s)
  \/ PercentageUpdate(s)

\* the price form of one admin, beside a second admin who sets the price to 2
MoonNext ==
  \/ PriceNext("s1")
  \/ UpdateMoonPrice("s2", "2")
  \/ UpdateMoonPriceAnswer("s2")

\* direct writes of the signed-in clients
WriteNext ==
  \E uid \in Users, k \in Coins, col \in {"balance", "locked_balance"}, v \in BalanceValues :
     UserWriteBalance(uid, k, col, v)

\* the Trade page
TradeNext ==
  \/ TradeFetchAnswer
  \/ TradeFetchFail
  \/ TradeFetchDeliver
  \/ \E p \in tradingPairs, side \in {"buy", "sell"}, t \in {"market", "limit"},
        a \in OrderInputs, pr \in OrderInputs : HandleTrade(p, side, t, a, pr)
  \/ TradeInsert

\* deposits, withdrawals and their approval
LedgerNext == AssetsNext \/ AdminNext \/ WriteNext
\* direct inserts into transactions of the signed-in clients
TransactionWriteNext ==
  \E uid \in Users, owner \in Users, st \in TransactionStatuses :
     UserInsertTransaction(uid, owner, st)

\* direct writes to the orders of the signed-in clients
OrderWriteNext ==
  \/ \E uid \in Users, i \in 1..MaxOrders, v \in OrderStatuses : UserWriteOrder(uid, i, "status", v)
  \/ \E uid \in Users, i \in 1..MaxOrders, v \in FilledValues :
        UserWriteOrder(uid, i, "filled_amount", v)

\* order placement
OrderNext ==
  \/ TradeNext
  \/ WriteNext
  \/ OrderWriteNext
  \/ \E k \in Coins : DeactivateCoin(k)

Next == LedgerNext \/ TradeNext

\* deposit requests alone, beside the direct writes
DepositNext ==
  \/ \E c \in AssetCalls, k \in Coins, v \in AmountInputs : HandleDeposit(c, k, v)
  \/ \E c \in AssetCalls : CoinSelect(c)
  \/ \E c \in AssetCalls : DepositInsert(c)
  \/ WriteNext

\* approval: the Admin page, beside one Assets call at a time that requests a
\* deposit or a withdrawal of 1 BTC
ApprovalNext ==
  \/ HandleDeposit(1, "BTC", "1")
  \/ HandleWithdraw(1, "BTC", "1", "addr")
  \/ CoinSelect(1)
  \/ DepositInsert(1)
  \/ WithdrawInsert(1)
  \/ AdminNext

\* requests: the Assets page, beside the direct writes
RequestNext ==
  \/ \E c \in AssetCalls, k \in Coins, v \in AmountInputs : HandleDeposit(c, k, v)
  \/ \E c \in AssetCalls, k \in Coins, v \in AmountInputs, a \in AddressInputs :
        HandleWithdraw(c, k, v, a)
  \/ \E c \in AssetCalls : CoinSelect(c)
  \/ \E c \in AssetCalls : DepositInsert(c)
  \/ \E c \in AssetCalls : WithdrawInsert(c)
  \/ WriteNext

Spec == Init /\ [][RequestNext]_vars
SpecApproval == Init /\ [][ApprovalNext]_vars
SpecDeposit == Init /\ [][DepositNext]_vars
SpecTrade == Init /\ [][OrderNext]_vars
\* the Admin page's approvals, beside the direct inserts into transactions
SpecStore == Init /\ [][AdminNext \/ TransactionWriteNext]_vars
\* The forms of the three pages: the fields are typed into, then a button is
\* clicked and the handler runs, up to its first await, on what the fields hold
FormNext ==
  \/ \E v \in {"", "1"} : SetDepositAmount(v)
  \/ \E v \in {"", "1"} : SetWithdrawAmount(v)
  \/ \E v \in AddressInputs : SetWithdrawAddress(v)
  \/ \E t \in {"market", "limit"} : SetOrderType(t)
  \/ \E v \in {"", "1"} : SetAmount(v)
  \/ \E v \in {"", "1"} : SetPrice(v)
  \/ \E v \in {"", "1"} : SetMoonPrice("s1", v)
  \/ \E v \in {"", "100"} : SetPriceChange("s1", v)
  \/ HandleDeposit(1, "BTC", depositAmount)
  \/ HandleWithdraw(1, "BTC", withdrawAmount, withdrawAddress)
  \/ HandleTrade(<<"BTC", "USDT">>, "buy", orderType, amount, price)
  \/ TradeFetchAnswer
  \/ TradeFetchFail
  \/ TradeFetchDeliver
  \/ UpdateMoonPrice("s1", moonPrice["s1"])
  \/ UpdateMoonPriceByPercentage("s1", priceChange["s1"])

SpecForms == Init /\ [][FormNext]_vars
\* the Assets page and the Admin page of one session mount and their first
\* requests settle
MountNext ==
  \/ AssetsFetchAnswer
  \/ AssetsFetchFail
  \/ AssetsFetchDeliver
  \/ FetchBalancesSettle
  \/ AdminFetchAnswer("s1")
  \/ AdminFetchFail("s1")
  \/ AdminFetchDeliver("s1")
  \/ FetchUsersSettle("s1")
  \/ MoonFetchAnswer("s1")
  \/ MoonFetchFail("s1")
  \/ MoonFetchDeliver("s1")

SpecMount == Init /\ [][MountNext]_vars

\* the transactions list of the Assets page, loaded over the user's history
HistoryNext ==
  \/ AssetsFetchAnswer
  \/ AssetsFetchFail
  \/ AssetsFetchDeliver

SpecHistory == InitHistory /\ [][HistoryNext]_vars

\* one admin session deciding the deposit requests of the user; every fetch of
\* the pending list is answered
RefetchNext ==
  \/ HandleDeposit(1, "BTC", "1")
  \/ CoinSelect(1)
  \/ DepositInsert(1)
  \/ AdminFetchAnswer("s1")
  \/ AdminFetchDeliver("s1")
  \/ \E i \in 1..MaxTx, a \in BOOLEAN : ApproveTransaction("s1", i, a)
  \/ ApproveUpdate("s1")

SpecRefetch == Init /\ [][RefetchNext]_vars

\* the percentage each of two admins applies, once, to the MOON price
RacePercent == [s \in {"s1", "s2"} |-> IF s = "s1" THEN "100" ELSE "0"]

\* an admin who has not used the price form yet applies the percentage
ApplyOnce(s) ==
  /\ adminToast[s] = "none"
  /\ UpdateMoonPriceByPercentage(s, RacePercent[s])

\* two admins with the Admin page open; each applies a percentage once
RaceNext ==
  \E s \in {"s1", "s2"} :
     \/ MoonFetchAnswer(s)
     \/ MoonFetchFail(s)
     \/ MoonFetchDeliver(s)
     \/ ApplyOnce(s)
     \/ PercentageSelect(s)
     \/ PercentageUpdate(s)

SpecRace == Init /\ [][RaceNext]_vars
\* the price form of the Admin page
SpecPrice == Init /\ [][MoonNext]_vars
\* the Trade page alone
SpecPlacement == Init /\ [][TradeNext]_vars
\* ... where the insert of a call in flight is answered or fails in the end
SpecPlacementFair == Init /\ [][TradeNext]_vars /\ WF_vars(TradeInsert)

(* ----------------- steps, as the properties name them ------------------ *)
\* the step in which session s's approveTransaction call gets its answer
ApproveAnswered(s) == adminCall[s].pc = "update" /\ adminCall'[s].pc = "idle"
\* ... and the answer is no error: the success toast is shown
ApproveSucceeded(s) == ApproveAnswered(s) /\ adminFetch'[s].req = adminFetch[s].req + 1
\* the step in which call c's insert gets its answer
InsertAnswered(c, op) ==
  assetCall[c].pc = "insert" /\ assetCall[c].op = op /\ assetCall'[c].pc = "idle"
\* ... and a row was stored
InsertSucceeded(c, op) ==
  InsertAnswered(c, op) /\ Len(transactions') = Len(transactions) + 1
\* any step of a call of handler op in slot c
CallStep(c, op) ==
  assetCall'[c] # assetCall[c] /\ (assetCall[c].op = op \/ assetCall'[c].op = op)
\* the step in which the order insert gets its answer
TradeAnswered == tradeCall.pc = "insert" /\ tradeCall'.pc = "idle"

Total(b) == b.balance + b.locked_balance

PendingWithdrawals(coin) ==
  {i \in TxIds : transactions[i].type = "withdrawal" /\ transactions[i].status = "pending"
                 /\ transactions[i].coin_id = coin}

(* ----------------- C1 -------------------------------------------------- *)
\* C1: an approveTransaction call whose update reaches a transaction that is no
\* longer pending fails (error toast) and leaves the transactions table and
\* every balance unchanged.
C1_SecondApproveFails ==
  [][\A s \in AdminSessions :
       (ApproveAnswered(s) /\ transactions[adminCall[s].id].status # "pending")
       => (/\ adminToast'[s] = "error"
           /\ transactions' = transactions
           /\ user_balances' = user_balances)]_vars

(* ----------------- C2 -------------------------------------------------- *)
\* C2: every row is created pending; a status changes only from pending, to
\* completed, rejected or cancelled; a completed or rejected row keeps its status.
C2_StatusTransitions ==
  [][\A i \in 1..Len(transactions') :
       IF i > Len(transactions)
       THEN transactions'[i].status = "pending"
       ELSE \/ transactions'[i].status = transactions[i].status
            \/ /\ transactions[i].status = "pending"
               /\ transactions'[i].status \in {"completed", "rejected", "cancelled"}]_vars

(* ----------------- C3 -------------------------------------------------- *)
\* C3: when a withdrawal request of amount y succeeds while a pending withdrawal
\* of amount x of the same asset exists, each of them having been available when
\* it was requested, then x + y does not exceed the available balance A: two
\* requests that together exceed A do not both succeed.
C3_AtMostOneWithdrawalSucceeds ==
  [][\A c \in AssetCalls :
       (InsertSucceeded(c, "withdrawal") /\ assetCall[c].fits)
       => LET k == assetCall[c].coin
              y == ParseFloat(assetCall[c].amount)
              A == user_balances[k].balance
          IN \A i \in PendingWithdrawals(k) :
                fitted[i] => transactions[i].amount + y <= A]_vars

(* ----------------- C4 -------------------------------------------------- *)
\* C4: a withdrawal request of amount x stores no row and shows an error unless
\* available >= x; when it stores its row (pending, withdrawal, amount x) it moves
\* exactly x from available to locked.
C4_WithdrawalChecksAndLocks ==
  [][\A c \in AssetCalls :
       InsertAnswered(c, "withdrawal")
       => LET k == assetCall[c].coin
              x == ParseFloat(assetCall[c].amount)
              b == user_balances[k]
          IN IF b.balance >= x
             THEN InsertSucceeded(c, "withdrawal")
                  => /\ user_balances'[k].balance = b.balance - x
                     /\ user_balances'[k].locked_balance = b.locked_balance + x
                     /\ transactions' = Append(transactions, WithdrawRow(assetCall[c]))
             ELSE /\ transactions' = transactions
                  /\ assetToast' = "error"]_vars

(* ----------------- C5 -------------------------------------------------- *)
\* C5: a successful approval of a pending deposit of amount x sets the row to
\* completed and, in the same step, adds x to the owner's available balance.
C5_DepositApprovalCredits ==
  [][\A s \in AdminSessions :
       LET t == transactions[adminCall[s].id]
       IN (/\ ApproveSucceeded(s)
           /\ adminCall[s].approve
           /\ t.type = "deposit"
           /\ t.status = "pending")
          => /\ transactions'[adminCall[s].id].status = "completed"
             /\ user_balances'[t.coin_id].balance
                  = user_balances[t.coin_id].balance + t.amount]_vars

(* ----------------- C6 -------------------------------------------------- *)
\* C6: a successful rejection of a pending withdrawal of amount X sets the row to
\* rejected, takes X from the owner's locked balance and adds X to the available
\* balance; on a row already rejected a rejection does not succeed.
C6_WithdrawalRejectionUnlocks ==
  [][\A s \in AdminSessions :
       LET t == transactions[adminCall[s].id]
       IN (/\ ApproveSucceeded(s)
           /\ ~adminCall[s].approve
           /\ t.type = "withdrawal")
          => /\ t.status = "pending"
             /\ transactions'[adminCall[s].id].status = "rejected"
             /\ user_balances'[t.coin_id].locked_balance
                  = user_balances[t.coin_id].locked_balance - t.amount
             /\ user_balances'[t.coin_id].balance
                  = user_balances[t.coin_id].balance + t.amount]_vars

(* ----------------- C7 -------------------------------------------------- *)
\* C7: no step of a handleDeposit call changes a balance record; the step in
\* which the insert succeeds adds exactly one row, of type deposit and status
\* pending, and no other step of the call changes the transactions table.
C7_DepositRequestFrame ==
  [][\A c \in AssetCalls :
       CallStep(c, "deposit")
       => /\ user_balances' = user_balances
          /\ IF InsertAnswered(c, "deposit") /\ assetToast' = "success"
             THEN /\ Len(transactions') = Len(transactions) + 1
                  /\ SubSeq(transactions', 1, Len(transactions)) = transactions
                  /\ transactions'[Len(transactions')].type = "deposit"
                  /\ transactions'[Len(transactions')].status = "pending"
                  /\ transactions'[Len(transactions')].user_id = EndUser
                  /\ transactions'[Len(transactions')].coin_id = assetCall[c].coin
                  /\ transactions'[Len(transactions')].amount = ParseFloat(assetCall[c].amount)
             ELSE transactions' = transactions]_vars

\* a deposit request has succeeded while the user held a balance
C7_Witness ==
  /\ assetToast = "success"
  /\ \E i \in TxIds : transactions[i].type = "deposit" /\ transactions[i].status = "pending"
  /\ \E k \in Coins : user_balances[k].balance # 0

(* ----------------- C8 -------------------------------------------------- *)
\* C8: no balance column is ever negative.
C8_BalancesNonNegative ==
  \A k \in Coins : user_balances[k].balance >= 0 /\ user_balances[k].locked_balance >= 0

(* ----------------- C9 -------------------------------------------------- *)
\* C9: available + locked of an asset never decreases (the program has no
\* settlement), and increases only in the step that approves a deposit of that asset.
C9_Conservation ==
  [][\A k \in Coins :
       /\ Total(user_balances'[k]) >= Total(user_balances[k])
       /\ Total(user_balances'[k]) > Total(user_balances[k])
          => \E s \in AdminSessions :
               /\ ApproveSucceeded(s)
               /\ adminCall[s].approve
               /\ transactions[adminCall[s].id].type = "deposit"
               /\ transactions[adminCall[s].id].coin_id = k]_vars

(* ----------------- C10 ------------------------------------------------- *)
\* the step in which handleTrade stores its order
OrderStored == tradeCall.pc = "insert" /\ Len(orders') = Len(orders) + 1

\* C10: when an order insert is answered, the order is stored only if the
\* required quantity (amount * price of the quote asset for a limit buy, amount of
\* the base asset for a sell) is available, and storing it moves exactly that
\* quantity from available to locked; otherwise no order is stored and an error shown.
C10_PlacementLocksFunds ==
  [][(TradeAnswered /\ (tradeCall.row[1].side = "sell" \/ tradeCall.row[1].type = "limit"))
     => LET r == tradeCall.row[1]
            k == IF r.side = "buy" THEN r.quote_coin_id ELSE r.base_coin_id
            need == IF r.side = "buy" THEN r.amount * r.price[1] ELSE r.amount
            b == user_balances[k]
        IN IF b.balance >= need
           THEN orders' # orders
                => /\ user_balances'[k].balance = b.balance - need
                   /\ user_balances'[k].locked_balance = b.locked_balance + need
           ELSE /\ orders' = orders
                /\ tradeToast' = "error"]_vars

(* ----------------- C11 ------------------------------------------------- *)
\* C11: every order in the table has amount > 0, and a handleTrade call whose
\* amount is zero or negative stores no order and ends with an error.
C11_OrderAmountPositive ==
  [][/\ \A i \in 1..Len(orders') : orders'[i].amount > 0
     /\ (TradeAnswered /\ tradeCall.row[1].amount <= 0)
        => (orders' = orders /\ tradeToast' = "error")]_vars

(* ----------------- C12 ------------------------------------------------- *)
\* C12: a handleTrade call stores no order and ends with an error when the base
\* or the quote coin of its pair is not active in table coins at that time, and
\* no call gets as far as the insert while the coin list is not loaded.
C12_InvalidPairRejected ==
  [][/\ (TradeAnswered /\ ~(/\ coins[tradeCall.row[1].base_coin_id].is_active
                             /\ coins[tradeCall.row[1].quote_coin_id].is_active))
        => (orders' = orders /\ tradeToast' = "error")
     /\ (tradeCall.pc = "idle" /\ tradeCoins = {}) => tradeCall'.pc = "idle"]_vars

(* ----------------- C13 ------------------------------------------------- *)
\* C13: an order handleTrade stores has a price exactly when its type is limit
\* (a market order is stored without one whatever the price field holds), and a
\* click with order type limit and an empty price field sends no insert.
C13_PriceIffLimit ==
  [][/\ OrderStored
        => LET r == orders'[Len(orders')]
           IN /\ r.type = orderType
              /\ (r.type = "limit") <=> (r.price # <<>>)
              /\ r.type = "limit" => r.price = <<ParseFloat(price)>>
     /\ (tradeCall.pc = "idle" /\ orderType' = "limit" /\ IsEmpty(price'))
        => (tradeCall'.pc = "idle" /\ orders' = orders)]_vars

\* a market order has been stored, without a price
C13_Witness ==
  /\ tradeToast = "success"
  /\ \E i \in 1..Len(orders) : orders[i].type = "market" /\ orders[i].price = <<>>

(* ----------------- C15 ------------------------------------------------- *)
\* C15: an order handleTrade stores is open and has filled_amount 0.
C15_NewOrderOpen ==
  [][OrderStored
     => (/\ orders'[Len(orders')].status = "open"
         /\ orders'[Len(orders')].filled_amount = 0)]_vars

\* a sell order has been stored, open and unfilled
C15_Witness ==
  /\ tradeToast = "success"
  /\ \E i \in 1..Len(orders) :
       orders[i].side = "sell" /\ orders[i].status = "open" /\ orders[i].filled_amount = 0

(* ----------------- C14 ------------------------------------------------- *)
\* C14: every order has filled_amount <= amount, and its status follows from the
\* two: filled exactly when filled_amount = amount, partial exactly when
\* 0 < filled_amount < amount, open or cancelled otherwise.
C14_StatusFollowsFill ==
  \A i \in 1..Len(orders) :
     LET o == orders[i]
     IN /\ o.filled_amount <= o.amount
        /\ (o.status = "filled") <=> (o.filled_amount = o.amount)
        /\ (o.status = "partial") <=> (0 < o.filled_amount /\ o.filled_amount < o.amount)
        /\ o.status \in OrderStatuses

(* ----------------- C16 ------------------------------------------------- *)
\* C16: the stored price of every coin is non-negative.
C16_PriceNonNegative == \A k \in CoinSymbols : coins[k].price >= 0

(* ----------------- C18 ------------------------------------------------- *)
\* the step in which session s's updateMoonPriceByPercentage call reports success
PercentageSucceeded(s) ==
  /\ priceCall[s].pc = "write"
  /\ priceCall'[s].pc = "idle"
  /\ adminToast'[s] = "success"

\* C18: the step in which a percentage update with percentage pct succeeds takes
\* the stored MOON price from oldPrice to oldPrice * (1 + pct/100).
C18_PercentageFormula ==
  [][\A s \in AdminSessions :
       PercentageSucceeded(s)
       => coins'["MOON"].price * 100
            = coins["MOON"].price * (100 + ParseFloat(priceCall[s].pct))]_vars

(* ----------------- C17 ------------------------------------------------- *)
\* the step in which session s's price update call (of either handler) is answered
PriceAnswered(s) == priceCall[s].pc \in {"update", "write"} /\ priceCall'[s].pc = "idle"

\* C17: only a session of an admin starts approveTransaction or a price update;
\* coins.price and transactions.status change only in the step that answers such
\* a call of an admin, and an admin's call that reports success has been applied.
C17_AdminOnly ==
  [][/\ \A s \in AdminSessions :
          /\ (adminCall[s].pc = "idle" /\ adminCall'[s].pc = "update")
             => sessionUser[s] \in Admins
          /\ (priceCall[s].pc = "idle" /\ priceCall'[s].pc # "idle")
             => sessionUser[s] \in Admins
          /\ (ApproveSucceeded(s) /\ sessionUser[s] \in Admins)
             => transactions'[adminCall[s].id].status
                  = IF adminCall[s].approve THEN "completed" ELSE "rejected"
          /\ (PriceAnswered(s) /\ adminToast'[s] = "success" /\ sessionUser[s] \in Admins)
             => coins'["MOON"].price = priceCall[s].price
     /\ coins'["MOON"].price # coins["MOON"].price
        => \E s \in AdminSessions : PriceAnswered(s) /\ sessionUser[s] \in Admins
     /\ (\E i \in TxIds : transactions'[i].status # transactions[i].status)
        => \E s \in AdminSessions : ApproveAnswered(s) /\ sessionUser[s] \in Admins
     /\ \A i \in 1..Len(transactions') :
          i > Len(transactions) => transactions'[i].status = "pending"]_vars

(* ----------------- C19 ------------------------------------------------- *)
\* C19: every completed or rejected transaction carries the admin who decided
\* it in admin_approved_by and a time in admin_approved_at.
C19_DecisionRecorded ==
  \A i \in TxIds :
     transactions[i].status \in {"completed", "rejected"}
     => (/\ transactions[i].admin_approved_by \in Admins
         /\ transactions[i].admin_approved_at > 0)

(* ----------------- C20 ------------------------------------------------- *)
\* C20: a step in which a page shows its validation toast leaves the tables,
\* the form fields of the page and its calls and fetches in flight unchanged.
C20_ValidationFrame ==
  [][/\ (assetToast # "validation" /\ assetToast' = "validation")
        => UNCHANGED <<storeVars, depositAmount, withdrawAmount, withdrawAddress,
                       assetCall, assetsFetch>>
     /\ (tradeToast # "validation" /\ tradeToast' = "validation")
        => UNCHANGED <<storeVars, orderType, amount, price, loading, tradeCall,
                       tradeCoinsFetch>>
     /\ \A s \in AdminSessions :
          (adminToast[s] # "validation" /\ adminToast'[s] = "validation")
          => UNCHANGED <<storeVars, moonPrice, priceChange, priceCall, adminCall,
                         adminFetch, moonFetch>>]_vars

\* every page has rejected an input, the withdrawal one with its address filled
\* and the order one with its amount filled
C20_Witness ==
  /\ assetToast = "validation"
  /\ withdrawAddress = "addr"
  /\ withdrawAmount = ""
  /\ tradeToast = "validation"
  /\ orderType = "limit"
  /\ amount = "1"
  /\ price = ""
  /\ adminToast["s1"] = "validation"
  /\ moonPrice["s1"] = "1"
  /\ priceChange["s1"] = ""

(* ----------------- C21 ------------------------------------------------- *)
\* C21: an approveTransaction call whose update changes no row (no such row, or
\* none the session may update) reports an error, and neither the table nor
\* the session's pending list request changes.
C21_NoRowIsNotFound ==
  [][\A s \in AdminSessions :
       (ApproveAnswered(s)
          /\ ~ CanUpdateTransaction(sessionUser[s], transactions[adminCall[s].id]))
       => /\ adminToast'[s] = "error"
          /\ UNCHANGED <<transactions, adminFetch>>]_vars

(* ----------------- C22 ------------------------------------------------- *)
\* C22: when a request a page made to the store fails, the page shows an error:
\* the step in which a fetch of the pending list, of the MOON price, of the
\* user's transactions or of the coin list fails shows the error toast.
C22_StorageFailureSurfaces ==
  [][/\ \A s \in AdminSessions :
          /\ (adminFetch[s].req > 0 /\ adminFetch'[s] = Fail(adminFetch[s]))
             => adminToast'[s] = "error"
          /\ (moonFetch[s].req > 0 /\ moonFetch'[s] = Fail(moonFetch[s]))
             => adminToast'[s] = "error"
     /\ (assetsFetch.req > 0 /\ assetsFetch' = Fail(assetsFetch))
        => assetToast' = "error"
     /\ (tradeCoinsFetch.req > 0 /\ tradeCoinsFetch' = Fail(tradeCoinsFetch))
        => tradeToast' = "error"]_vars

(* ----------------- C23 ------------------------------------------------- *)
\* C23: once the percentage updates of two admins, p1 and p2, have both
\* reported success on a store that accepts their writes, the stored MOON price
\* is the initial price times (1 + p1/100) times (1 + p2/100).
C23_NoLostUpdate ==
  (\A s \in {"s1", "s2"} :
      /\ priceCall[s].pc = "idle"
      /\ adminToast[s] = "success"
      /\ CanUpdateCoins(sessionUser[s]))
  => coins["MOON"].price * 100 * 100
       = SeedPrice("MOON") * (100 + ParseFloat(RacePercent["s1"]))
                           * (100 + ParseFloat(RacePercent["s2"]))

(* ----------------- C24 ------------------------------------------------- *)
\* C24: while a handleTrade call awaits the store loading is true, a call starts
\* only while loading is false (the buttons are disabled otherwise), and
\* loading, once true, is false again later.
C24_OneTradeInFlight ==
  /\ [](tradeCall.pc = "insert" => loading)
  /\ [][(tradeCall.pc # "insert" /\ tradeCall'.pc = "insert") => (~loading /\ loading')]_vars
  /\ (loading ~> ~loading)

\* a placement is in flight and the buttons are disabled
C24_Witness == tradeCall.pc = "insert" /\ loading

(* ----------------- C25 ------------------------------------------------- *)
\* C25: every stored deposit transaction carries a deposit wallet address.
C25_DepositHasAddress ==
  \A i \in TxIds :
     transactions[i].type = "deposit" => transactions[i].wallet_address # Null

(* ----------------- C26 ------------------------------------------------- *)
\* the transactions session s has decided: the rows its update was applied to
DecidedBy(s) ==
  {i \in TxIds : /\ transactions[i].status \in {"completed", "rejected"}
                 /\ transactions[i].admin_approved_by = sessionUser[s]}

\* C26: when no approveTransaction call and no fetch of the pending list of a
\* session is in flight, the list of the session holds no transaction that the
\* session has decided.
C26_ListDropsDecided ==
  \A s \in AdminSessions :
     (adminCall[s].pc = "idle" /\ adminFetch[s] = NoFetch)
     => pendingList[s] \cap DecidedBy(s) = {}

(* ----------------- C27 ------------------------------------------------- *)
\* the number the MOON Price card of session s shows: parseFloat(moonPrice || '0')
\* (toFixed(6) prints the prices of the model exactly)
MoonPriceCard(s) == ParseFloat(IF IsEmpty(moonPrice[s]) THEN "0" ELSE moonPrice[s])

\* the step in which an answer to fetchMoonPrice reaches session s
MoonPriceRead(s) ==
  /\ moonFetch'[s].resp # moonFetch[s].resp
  /\ moonFetch'[s].resp \subseteq moonFetch[s].resp

\* C27: the price shown in the MOON Price card of a session changes only in a
\* step in which the session reads the price from the store or one of its price
\* updates reports success.
C27_CardShowsStoredPrice ==
  [][\A s \in AdminSessions :
       MoonPriceCard(s)' # MoonPriceCard(s)
       => \/ MoonPriceRead(s)
          \/ (PriceAnswered(s) /\ adminToast'[s] = "success")]_vars

(* ----------------- C28 ------------------------------------------------- *)
\* C28: in the step in which updateMoonPrice or updateMoonPriceByPercentage
\* reports success, the stored MOON price becomes the price the call sent.
C28_SuccessMeansStored ==
  [][\A s \in AdminSessions :
       (PriceAnswered(s) /\ adminToast'[s] = "success")
       => coins'["MOON"].price = priceCall[s].price]_vars

(* ----------------- C29 ------------------------------------------------- *)
\* the number the Pending Transactions card of the Assets page shows
PendingCount == Cardinality({t \in assetsTransactions : t.status = "pending"})

\* the pending transactions of the user in the store
StoredPending ==
  {i \in TxIds : transactions[i].user_id = EndUser /\ transactions[i].status = "pending"}

\* the step in which an answer to Assets.fetchTransactions reaches the page
AssetsListRead ==
  /\ assetsFetch'.resp # assetsFetch.resp
  /\ assetsFetch'.resp \subseteq assetsFetch.resp

\* C29: when the transactions of the user arrive on the Assets page, the
\* Pending Transactions card shows the number of the user's pending
\* transactions (the store does not change between the fetch and its arrival).
C29_PendingCount ==
  [][AssetsListRead => PendingCount' = Cardinality(StoredPending)]_vars

(* ----------------- C30 ------------------------------------------------- *)
\* C30: a page that has left its loading state has fetched every list it shows:
\* the Assets page its balances and its transactions, the Admin page its
\* pending transactions and its users (only the requests of the mount are made).
C30_LoadingCoversFetches ==
  /\ ~ assetsLoading => (balancesFetch = "done" /\ assetsFetch.req = 0)
  /\ \A s \in AdminSessions :
        ~ adminLoading[s] => (usersFetch[s] = "done" /\ adminFetch[s].req = 0)

====
